---------------------------- MODULE Spec2Model ----------------------------
(***************************************************************************)
(* RegEx For Automated Redactions (src/main.py).                           *)
(*                                                                         *)
(* A string is a sequence of one-character strings.  A file is a record    *)
(* [exists, data] whose data is the sequence of its bytes; the model's     *)
(* files hold ASCII text plus the byte BAD, which is no valid UTF-8; they   *)
(* hold no "\r", so a line ends at "\n" only.                              *)
(*                                                                         *)
(* Two specifications:                                                     *)
(*   SpecTerm  replace_with_regex applied to every term up to MaxTermLen   *)
(*   Spec      main() calling process_file on a small file system          *)
(***************************************************************************)
EXTENDS Integers, Sequences, FiniteSets, TLC

(***************************************************************************)
(* Bounds                                                                  *)
(***************************************************************************)
MaxTermLen == 2

\* The longest input file, in bytes.
MaxFileLen == 5

\* The bytes one read of the input's text layer asks for (8192 in CPython's
\* io.TextIOWrapper), scaled down so that a file spans several chunks.
ChunkSize == 2

(***************************************************************************)
(* OCR_REPLACEMENTS and _PATTERN                                           *)
(***************************************************************************)
OCR_REPLACEMENTS ==
    "l" :> <<"[", "l", "|", "1", "|", "I", "]">> @@
    "O" :> <<"[", "O", "|", "0", "|", "Q", "]">> @@
    "0" :> <<"[", "O", "|", "0", "|", "Q", "]">> @@
    "Q" :> <<"[", "O", "|", "0", "|", "Q", "]">> @@
    "8" :> <<"[", "8", "|", "B", "]">> @@
    "B" :> <<"[", "8", "|", "B", "]">> @@
    "w" :> <<"[", "w", "|", "v", "v", "]">> @@
    "v" :> <<"[", "v", "|", "u", "|", "y", "]">> @@
    "y" :> <<"[", "v", "|", "u", "|", "y", "]">> @@
    "u" :> <<"[", "u", "|", "v", "]">> @@
    "5" :> <<"[", "5", "|", "S", "]">> @@
    "S" :> <<"[", "5", "|", "S", "]">> @@
    "A" :> <<"[", "4", "|", "A", "]">> @@
    "t" :> <<"[", "t", "|", "f", "|", "i", "]">> @@
    "f" :> <<"[", "t", "|", "f", "]">> @@
    "e" :> <<"[", "e", "|", "c", "]">> @@
    "c" :> <<"[", "e", "|", "c", "]">> @@
    "h" :> <<"[", "h", "|", "b", "|", "l", "i", "]">> @@
    "b" :> <<"[", "b", "|", "h", "]">> @@
    "i" :> <<"[", "i", "|", "1", "|", "l", "]">> @@
    "I" :> <<"[", "I", "|", "l", "|", "1", "]">> @@
    "G" :> <<"[", "G", "|", "6", "]">> @@
    "6" :> <<"[", "G", "|", "6", "|", "o", "]">> @@
    "1" :> <<"[", "1", "|", "I", "|", "l", "]">>

\* OCR_REPLACEMENTS.keys(), in the dict's insertion order.
Keys ==
    <<"l", "O", "0", "Q", "8", "B", "w", "v", "y", "u", "5", "S",
      "A", "t", "f", "e", "c", "h", "b", "i", "I", "G", "6", "1">>

\* _PATTERN: the alternation key1|key2|...|key24.  re.escape leaves these
\* alphanumeric keys as they are, so each alternative is a literal of
\* exactly one character, kept here as that character.
PATTERN == Keys

\* The first alternative of _PATTERN, from the j-th on, matching s at
\* position i; 0 if none does (alternatives are tried in order).
RECURSIVE FirstAlternative(_, _, _)
FirstAlternative(s, i, j) ==
    IF j > Len(PATTERN) THEN 0
    ELSE IF s[i] = PATTERN[j] THEN j
    ELSE FirstAlternative(s, i, j + 1)

MatchAt(s, i) == FirstAlternative(s, i, 1)

\* _PATTERN.search(s, pos): the leftmost position >= pos with a match, 0 if none.
RECURSIVE Search(_, _)
Search(s, pos) ==
    IF pos > Len(s) THEN 0
    ELSE IF MatchAt(s, pos) # 0 THEN pos
    ELSE Search(s, pos + 1)

\* The lambda of line 64, with a wrongly typed table entry for "A".
ReplacementTypo(group0) ==
    IF group0 = "A" THEN <<"[", "4", "|", "a", "]">>
    ELSE OCR_REPLACEMENTS[group0]

\* lambda match: OCR_REPLACEMENTS[match.group(0)]
Replacement(group0) == OCR_REPLACEMENTS[group0]

\* _PATTERN.sub(repl, s) from position pos on: the text up to the next
\* match is copied, the match is replaced, and the scan resumes after the
\* match in the ORIGINAL string.
RECURSIVE Sub(_, _)
Sub(s, pos) ==
    LET i == Search(s, pos)
    IN  IF i = 0 THEN SubSeq(s, pos, Len(s))
        ELSE SubSeq(s, pos, i - 1) \o Replacement(PATTERN[MatchAt(s, i)])
               \o Sub(s, i + 1)

\* The two characters \b.
WordBoundary == <<"\\", "b">>

\* str.replace(old, new) for a one-character old.
RECURSIVE StrReplace(_, _, _)
StrReplace(s, old, new) ==
    IF s = <<>> THEN <<>>
    ELSE (IF Head(s) = old THEN new ELSE <<Head(s)>>)
           \o StrReplace(Tail(s), old, new)

\* for key in OCR_REPLACEMENTS: s = s.replace(key, OCR_REPLACEMENTS[key])
RECURSIVE ChainReplace(_, _)
ChainReplace(s, j) ==
    IF j > Len(Keys) THEN s
    ELSE ChainReplace(StrReplace(s, Keys[j], OCR_REPLACEMENTS[Keys[j]]), j + 1)

\* replace_with_regex with one str.replace per key instead of one regex pass.
replace_with_regex_chained(searchterm, add_word_boundary) ==
    LET updated_searchterm == ChainReplace(searchterm, 1)
    IN  IF add_word_boundary
        THEN WordBoundary \o updated_searchterm \o WordBoundary
        ELSE updated_searchterm

\* replace_with_regex with the anchors added before the substitution.
replace_with_regex_anchor_first(searchterm, add_word_boundary) ==
    IF add_word_boundary
    THEN Sub(WordBoundary \o searchterm \o WordBoundary, 1)
    ELSE Sub(searchterm, 1)

replace_with_regex(searchterm, add_word_boundary) ==
    LET updated_searchterm == Sub(searchterm, 1)
    IN  IF add_word_boundary
        THEN WordBoundary \o updated_searchterm \o WordBoundary
        ELSE updated_searchterm

(***************************************************************************)
(* Terms: the strings replace_with_regex is applied to                     *)
(***************************************************************************)
KeySet == {Keys[j] : j \in 1..Len(Keys)}

\* Characters that are no key: letters, a digit, regex metacharacters and
\* the characters the alternations are written with.
OtherChars == {"a", "o", ".", "[", "|", "\\"}

TermChars == KeySet \cup OtherChars

Terms == UNION {[1..n -> TermChars] : n \in 0..MaxTermLen}

NotRun == <<"<not run>">>

(***************************************************************************)
(* Files                                                                   *)
(***************************************************************************)
INPUT_FILE == "searchterms.txt"
OUTPUT_FILE == "regex_searchterms.txt"

Paths == {INPUT_FILE, OUTPUT_FILE}

\* A byte that is not valid UTF-8 (0xFF).
BAD == "<0xFF>"

FileChars == {"b", "a", " ", "\n", BAD}

FileContents == UNION {[1..n -> FileChars] : n \in 0..MaxFileLen}

Absent == [exists |-> FALSE, data |-> <<>>]

\* What the output path holds before the run, when it exists.
OldOutput == <<"o", "l", "d", "\n">>

\* No value (Python's None).
None == "None"

VARIABLES
    term,       \* the search term S
    plain,      \* replace_with_regex(S, False), NotRun before the call
    anchored,   \* replace_with_regex(S, True), NotRun before the call
    twice,      \* replace_with_regex(plain, False), NotRun before the call
    fs,                 \* the file system: path -> [exists, data]
    input_path,         \* args.input
    output_path,        \* args.output
    add_word_boundary,  \* not args.no_word_boundary
    pc,                 \* where main / process_file stands
    input_file,         \* the input handle: [open, pos, buf]
    output_file,        \* the output handle: [open]
    line,               \* the line the loop holds
    processed_count,
    exc,                \* the exception in flight, None if none
    count,              \* what process_file returned to main: <<n>>, <<>> if nothing
    exit_code,          \* what main returned: <<code>>, <<>> before
    printed,            \* what main printed: None, "success", "error", "unexpected"
    fs0,                \* history: the file system when main was called
    writes,             \* history: the write() calls that returned
    failed_at           \* history: the statement that raised, None if none

tvars == <<term, plain, anchored, twice>>

fvars == <<fs, input_path, output_path, add_word_boundary, pc, input_file,
           output_file, line, processed_count, exc, count, exit_code,
           printed, fs0, writes, failed_at>>

vars == <<tvars, fvars>>

Closed == [open |-> FALSE, pos |-> 0, buf |-> <<>>]

\* The state common to every start of main(): nothing opened, nothing run.
Idle ==
    /\ pc = "call"
    /\ input_file = Closed
    /\ output_file = [open |-> FALSE]
    /\ line = <<>>
    /\ processed_count = 0
    /\ exc = None
    /\ count = <<>>
    /\ exit_code = <<>>
    /\ printed = None
    /\ writes = 0
    /\ failed_at = None
    /\ fs0 = fs

InitTerm ==
    /\ term \in Terms
    /\ plain = NotRun
    /\ anchored = NotRun
    /\ twice = NotRun
    /\ fs = [p \in Paths |-> Absent]
    /\ input_path = INPUT_FILE
    /\ output_path = OUTPUT_FILE
    /\ add_word_boundary = TRUE
    /\ Idle

ConvertPlain ==
    /\ plain = NotRun
    /\ plain' = replace_with_regex(term, FALSE)
    /\ UNCHANGED <<term, anchored, twice, fvars>>

ConvertAnchored ==
    /\ anchored = NotRun
    /\ anchored' = replace_with_regex(term, TRUE)
    /\ UNCHANGED <<term, plain, twice, fvars>>

ConvertAgain ==
    /\ plain # NotRun
    /\ twice = NotRun
    /\ twice' = replace_with_regex(plain, FALSE)
    /\ UNCHANGED <<term, plain, anchored, fvars>>

NextTerm == ConvertPlain \/ ConvertAnchored \/ ConvertAgain

SpecTerm == InitTerm /\ [][NextTerm]_vars

(***************************************************************************)
(* process_file and main                                                   *)
(***************************************************************************)
Init ==
    /\ term = <<>>
    /\ plain = NotRun
    /\ anchored = NotRun
    /\ twice = NotRun
    /\ input_path = INPUT_FILE
    /\ output_path \in Paths
    /\ add_word_boundary \in BOOLEAN
    /\ \E in \in {Absent} \cup {[exists |-> TRUE, data |-> d] : d \in FileContents},
          out \in {Absent, [exists |-> TRUE, data |-> OldOutput]} :
          fs = (INPUT_FILE :> in) @@ (OUTPUT_FILE :> out)
    /\ Idle

\* The classes `except IOError` (an alias of OSError) catches.
OSErrorClasses == {"OSError", "FileNotFoundError", "PermissionError"}

\* except IOError as e: raise IOError(...) from e.  What leaves the try
\* statement when e was raised inside it.
ExceptIOError(e) == IF e \in OSErrorClasses THEN "OSError" ELSE e

\* __exit__ of a file handle without closing it.
WithExitLeak(f) == f

\* __exit__ of a file handle opened by the with statement: it is closed
\* (closing a handle that was never opened changes nothing).
WithExit(f) == [f EXCEPT !.open = FALSE]

\* open(path, "a"): the content is kept.
OpenForAppend(f) == [exists |-> TRUE, data |-> f.data]

\* output_path.open("w"): the file is created, or truncated if it exists.
OpenForWrite(f) == [exists |-> TRUE, data |-> <<>>]

\* e is raised at statement `at` inside the try/with of process_file: the
\* with statement closes what it opened, the except clause rewraps.
Raise(e, at) ==
    /\ exc' = ExceptIOError(e)
    /\ failed_at' = at
    /\ input_file' = WithExit(input_file)
    /\ output_file' = WithExit(output_file)
    /\ pc' = "raised"

\* The existence check moved after the opening of the output.
CheckExistsLate ==
    /\ pc = "call"
    /\ IF ~fs[input_path].exists
       THEN /\ exc' = "FileNotFoundError"
            /\ failed_at' = "exists"
            /\ pc' = "raised"
            /\ fs' = [fs EXCEPT ![output_path] = OpenForWrite(@)]
            /\ UNCHANGED processed_count
       ELSE /\ processed_count' = 0
            /\ pc' = "open_input"
            /\ UNCHANGED <<exc, failed_at, fs>>
    /\ UNCHANGED <<tvars, input_path, output_path, add_word_boundary,
                   input_file, output_file, line, count, exit_code, printed,
                   fs0, writes>>

\* if not input_path.exists(): raise FileNotFoundError; processed_count = 0
CheckExists ==
    /\ pc = "call"
    /\ IF ~fs[input_path].exists
       THEN /\ exc' = "FileNotFoundError"
            /\ failed_at' = "exists"
            /\ pc' = "raised"
            /\ UNCHANGED processed_count
       ELSE /\ processed_count' = 0
            /\ pc' = "open_input"
            /\ UNCHANGED <<exc, failed_at>>
    /\ UNCHANGED <<tvars, fs, input_path, output_path, add_word_boundary,
                   input_file, output_file, line, count, exit_code, printed,
                   fs0, writes>>

\* input_path.open("r", encoding="utf-8"): nothing is read yet.  The open
\* may fail although the path exists (permissions, a directory).
OpenInput ==
    /\ pc = "open_input"
    /\ \E ok \in BOOLEAN :
          IF ok
          THEN /\ input_file' = [open |-> TRUE, pos |-> 0, buf |-> <<>>]
               /\ pc' = "open_output"
               /\ UNCHANGED <<output_file, exc, failed_at>>
          ELSE Raise("PermissionError", "open_input")
    /\ UNCHANGED <<tvars, fs, input_path, output_path, add_word_boundary,
                   line, processed_count, count, exit_code, printed, fs0,
                   writes>>

\* output_path.open("w", encoding="utf-8"), the second item of the with
\* statement.  It may fail (missing directory, permissions).
OpenOutput ==
    /\ pc = "open_output"
    /\ \E outcome \in {"ok", "FileNotFoundError", "PermissionError"} :
          IF outcome = "ok"
          THEN /\ fs' = [fs EXCEPT ![output_path] = OpenForWrite(@)]
               /\ output_file' = [open |-> TRUE]
               /\ pc' = "loop"
               /\ UNCHANGED <<input_file, exc, failed_at>>
          ELSE /\ Raise(outcome, "open_output")
               /\ UNCHANGED fs
    /\ UNCHANGED <<tvars, input_path, output_path, add_word_boundary,
                   line, processed_count, count, exit_code, printed, fs0,
                   writes>>

\* The position of the first "\n" of buf, 0 if it has none.
RECURSIVE IndexOfNewline(_, _)
IndexOfNewline(buf, i) ==
    IF i > Len(buf) THEN 0
    ELSE IF buf[i] = "\n" THEN i
    ELSE IndexOfNewline(buf, i + 1)

Min(a, b) == IF a <= b THEN a ELSE b

\* next(input_file): the text layer holds the decoded, unread text buf and
\* has consumed pos bytes of the file.  A line ends with its "\n"; with no
\* "\n" in buf the next chunk of the file is read and decoded as UTF-8
\* (strict), which fails on a chunk holding an invalid byte; at the end of
\* the file what is left is the last line, and no line is left after it.
RECURSIVE NextLine(_, _, _)
NextLine(buf, pos, data) ==
    LET nl == IndexOfNewline(buf, 1)
    IN  IF nl # 0
        THEN [status |-> "line", line |-> SubSeq(buf, 1, nl),
              buf |-> SubSeq(buf, nl + 1, Len(buf)), pos |-> pos]
        ELSE IF pos >= Len(data)
        THEN IF buf = <<>>
             THEN [status |-> "eof", line |-> <<>>, buf |-> <<>>, pos |-> pos]
             ELSE [status |-> "line", line |-> buf, buf |-> <<>>, pos |-> pos]
        ELSE LET chunk == SubSeq(data, pos + 1, Min(pos + ChunkSize, Len(data)))
             IN  IF \E i \in 1..Len(chunk) : chunk[i] = BAD
                 THEN [status |-> "decode", line |-> <<>>, buf |-> buf,
                       pos |-> pos + Len(chunk)]
                 ELSE NextLine(buf \o chunk, pos + Len(chunk), data)

\* for line in input_file: one step of the iteration.  At the end of the
\* file the with block is left, both handles are closed and
\* processed_count is returned.
ReadLine ==
    /\ pc = "loop"
    /\ \E ok \in BOOLEAN :
          IF ~ok
          THEN /\ Raise("OSError", "read")
               /\ UNCHANGED <<line, count>>
          ELSE LET r == NextLine(input_file.buf, input_file.pos,
                                 fs[input_path].data)
               IN  CASE r.status = "decode" ->
                          /\ Raise("UnicodeDecodeError", "read")
                          /\ UNCHANGED <<line, count>>
                     [] r.status = "eof" ->
                          /\ input_file' = WithExit(input_file)
                          /\ output_file' = WithExit(output_file)
                          /\ count' = <<processed_count>>
                          /\ pc' = "returned"
                          /\ UNCHANGED <<line, exc, failed_at>>
                     [] r.status = "line" ->
                          /\ line' = r.line
                          /\ input_file' = [open |-> TRUE, pos |-> r.pos,
                                            buf |-> r.buf]
                          /\ pc' = "line"
                          /\ UNCHANGED <<output_file, count, exc, failed_at>>
    /\ UNCHANGED <<tvars, fs, input_path, output_path, add_word_boundary,
                   processed_count, exit_code, printed, fs0, writes>>

\* The characters str.strip() removes, among those of the model.
Whitespace == {" ", "\t", "\n", "\r", "\f"}

RECURSIVE LStrip(_)
LStrip(s) ==
    IF s # <<>> /\ Head(s) \in Whitespace THEN LStrip(Tail(s)) ELSE s

RECURSIVE RStrip(_)
RStrip(s) ==
    IF s # <<>> /\ s[Len(s)] \in Whitespace
    THEN RStrip(SubSeq(s, 1, Len(s) - 1))
    ELSE s

\* line.strip()
Strip(s) == RStrip(LStrip(s))

\* The loop body counting a blank line as processed.
SkipBlankCounted ==
    /\ pc = "line"
    /\ Strip(line) = <<>>
    /\ processed_count' = processed_count + 1
    /\ pc' = "loop"
    /\ UNCHANGED <<tvars, fs, input_path, output_path, add_word_boundary,
                   input_file, output_file, line, exc, count,
                   exit_code, printed, fs0, writes, failed_at>>

\* stripped_line = line.strip(); if not stripped_line: continue
SkipBlank ==
    /\ pc = "line"
    /\ Strip(line) = <<>>
    /\ pc' = "loop"
    /\ UNCHANGED <<tvars, fs, input_path, output_path, add_word_boundary,
                   input_file, output_file, line, processed_count, exc, count,
                   exit_code, printed, fs0, writes, failed_at>>

\* regex_searchterm = replace_with_regex(stripped_line, add_word_boundary)
\* output_file.write(regex_searchterm + "\n"): the line is appended to the
\* output, or the write raises and the file is as it was.
WriteLine ==
    /\ pc = "line"
    /\ LET stripped_line == Strip(line)
           regex_searchterm == replace_with_regex(stripped_line, add_word_boundary)
       IN  /\ stripped_line # <<>>
           /\ \E ok \in BOOLEAN :
                 IF ok
                 THEN /\ fs' = [fs EXCEPT ![output_path].data =
                                    @ \o regex_searchterm \o <<"\n">>]
                      /\ writes' = writes + 1
                      /\ pc' = "count"
                      /\ UNCHANGED <<input_file, output_file, exc, failed_at>>
                 ELSE /\ Raise("OSError", "write")
                      /\ UNCHANGED <<fs, writes>>
    /\ UNCHANGED <<tvars, input_path, output_path, add_word_boundary, line,
                   processed_count, count, exit_code, printed, fs0>>

\* processed_count += 1
Increment ==
    /\ pc = "count"
    /\ processed_count' = processed_count + 1
    /\ pc' = "loop"
    /\ UNCHANGED <<tvars, fs, input_path, output_path, add_word_boundary,
                   input_file, output_file, line, exc, count, exit_code,
                   printed, fs0, writes, failed_at>>

\* main's handlers, in order: FileNotFoundError, IOError, Exception.
ExitCode(e) ==
    IF e = "FileNotFoundError" THEN 1
    ELSE IF e \in OSErrorClasses THEN 2
    ELSE 3

\* count = process_file(...); print(...); return 0
MainReturn ==
    /\ pc = "returned"
    /\ printed' = "success"
    /\ exit_code' = <<0>>
    /\ pc' = "exit"
    /\ UNCHANGED <<tvars, fs, input_path, output_path, add_word_boundary,
                   input_file, output_file, line, processed_count, exc, count,
                   fs0, writes, failed_at>>

\* except FileNotFoundError / IOError / Exception: print to stderr, return
MainExcept ==
    /\ pc = "raised"
    /\ exit_code' = <<ExitCode(exc)>>
    /\ printed' = IF ExitCode(exc) = 3 THEN "unexpected" ELSE "error"
    /\ pc' = "exit"
    /\ UNCHANGED <<tvars, fs, input_path, output_path, add_word_boundary,
                   input_file, output_file, line, processed_count, exc, count,
                   fs0, writes, failed_at>>

Next ==
    \/ CheckExists
    \/ OpenInput
    \/ OpenOutput
    \/ ReadLine
    \/ SkipBlank
    \/ WriteLine
    \/ Increment
    \/ MainReturn
    \/ MainExcept

Spec == Init /\ [][Next]_vars

(***************************************************************************)
(* Claims about replace_with_regex (checked under SpecTerm)                *)
(***************************************************************************)
HasKeyChar(s) == \E i \in 1..Len(s) : s[i] \in KeySet

\* What one character of a term stands for in the pattern.
CharImage(c) ==
    IF c \in DOMAIN OCR_REPLACEMENTS THEN OCR_REPLACEMENTS[c] ELSE <<c>>

RECURSIVE Flatten(_)
Flatten(ss) == IF ss = <<>> THEN <<>> ELSE Head(ss) \o Flatten(Tail(ss))

\* The left-to-right concatenation of the images of the characters of s.
ImageOf(s) == Flatten([i \in 1..Len(s) |-> CharImage(s[i])])

\* C1: replace_with_regex(S, False) is the concatenation, character by
\* character, of the table's alternation for a key character and of the
\* character itself otherwise (one pass, inserted text never expanded again,
\* metacharacters copied as they are); a term with no key character comes
\* back unchanged.
C1_SinglePassSubstitution ==
    plain # NotRun =>
        /\ plain = ImageOf(term)
        /\ (~HasKeyChar(term) => plain = term)

C1_Witness ==
    /\ term = <<"b", ".">>
    /\ plain = <<"[", "b", "|", "h", "]", ".">>

\* C2: replace_with_regex(S, True) is \b, then replace_with_regex(S, False),
\* then \b, for every S including the empty string; the b of the anchors
\* is not expanded.
C2_AnchorsWrapPlainResult ==
    (plain # NotRun /\ anchored # NotRun) =>
        anchored = WordBoundary \o plain \o WordBoundary

C2_Witness ==
    /\ term = <<"b">>
    /\ plain = <<"[", "b", "|", "h", "]">>
    /\ anchored = <<"\\", "b", "[", "b", "|", "h", "]", "\\", "b">>

\* C8: a second pass over replace_with_regex(S, False) leaves it unchanged
\* exactly when S has no key character, and every alternation of the table
\* contains its own key.
C8_IdempotentIffNoKey ==
    /\ twice # NotRun => ((twice = plain) <=> ~HasKeyChar(term))
    /\ \A j \in 1..Len(PATTERN) :
          \E i \in 1..Len(Replacement(PATTERN[j])) :
              Replacement(PATTERN[j])[i] = Keys[j]

C8_Witness ==
    /\ term = <<"A">>
    /\ plain = <<"[", "4", "|", "A", "]">>
    /\ twice = <<"[", "4", "|", "[", "4", "|", "A", "]", "]">>

(***************************************************************************)
(* Claims about process_file and main (checked under Spec)                 *)
(***************************************************************************)
\* The lines of a text: the pieces between "\n"s, a last piece with no
\* "\n" after it counting when it is not empty.
RECURSIVE LinesOf(_, _)
LinesOf(data, cur) ==
    IF data = <<>> THEN (IF cur = <<>> THEN <<>> ELSE <<cur>>)
    ELSE IF Head(data) = "\n" THEN <<cur>> \o LinesOf(Tail(data), <<>>)
    ELSE LinesOf(Tail(data), Append(cur, Head(data)))

IsBlank(l) == \A i \in 1..Len(l) : l[i] \in Whitespace

NonBlank(l) == ~IsBlank(l)

NonBlankLines(data) == SelectSeq(LinesOf(data, <<>>), NonBlank)

\* The output lines the input content calls for, in input order.
ExpectedLines(data, flag) ==
    [n \in 1..Len(NonBlankLines(data)) |->
        replace_with_regex(Strip(NonBlankLines(data)[n]), flag) \o <<"\n">>]

\* The number of "\n" in a text.
RECURSIVE NewlineCount(_)
NewlineCount(data) ==
    IF data = <<>> THEN 0
    ELSE (IF Head(data) = "\n" THEN 1 ELSE 0) + NewlineCount(Tail(data))

Returned == count # <<>>

Left == pc \in {"returned", "raised", "exit"}

\* C3: when process_file completes without error the output holds, in
\* input order, one line per non-blank line of the input as it was when
\* process_file was called: replace_with_regex of the stripped line and a
\* newline; as many output lines as non-blank input lines.
C3_OutputIsConvertedInput ==
    Returned =>
        /\ fs[output_path].data =
              Flatten(ExpectedLines(fs0[input_path].data, add_word_boundary))
        /\ NewlineCount(fs[output_path].data) =
              Len(NonBlankLines(fs0[input_path].data))

\* The same statement for an output path that is not the input path.
OutputIsConvertedInputDistinctPaths ==
    (Returned /\ input_path # output_path) => C3_OutputIsConvertedInput

\* C4: at the head of the loop processed_count is the number of lines
\* written so far; between a write and its increment it is one behind; a
\* skipped blank line never counts; the value returned is the number of
\* lines written (the non-blank input lines when the output is another
\* file), and 0 with an existing empty output for an input of blank lines.
C4_CountIsLinesWritten ==
    /\ pc \in {"loop", "line"} => processed_count = writes
    /\ pc = "count" => processed_count + 1 = writes
    /\ Returned =>
          /\ count = <<writes>>
          /\ count = <<NewlineCount(fs[output_path].data)>>
          /\ input_path # output_path =>
                count = <<Len(NonBlankLines(fs0[input_path].data))>>
          /\ NonBlankLines(fs0[input_path].data) = <<>> =>
                /\ count = <<0>>
                /\ fs[output_path] = [exists |-> TRUE, data |-> <<>>]

C4_Witness ==
    /\ pc = "returned"
    /\ fs0[input_path].data = <<" ", "\n", "b">>
    /\ input_path # output_path
    /\ count = <<1>>

\* C5: with no input file at the call, process_file raises
\* FileNotFoundError before it opens anything: the file system is as it
\* was (the output neither created nor truncated), nothing is returned,
\* and main exits with 1 and prints no success.
C5_MissingInputTouchesNothing ==
    (~fs0[input_path].exists /\ pc # "call") =>
        /\ exc = "FileNotFoundError"
        /\ failed_at = "exists"
        /\ fs = fs0
        /\ ~input_file.open /\ ~output_file.open
        /\ count = <<>>
        /\ pc = "exit" => (exit_code = <<1>> /\ printed = "error")

C5_Witness ==
    /\ pc = "exit"
    /\ ~fs0[input_path].exists
    /\ output_path = OUTPUT_FILE
    /\ fs[OUTPUT_FILE] = [exists |-> TRUE, data |-> OldOutput]
    /\ exit_code = <<1>>

InsideTry == {"open_input", "open_output", "read", "write"}

\* C6: every failure of opening, reading (invalid UTF-8 included) or
\* writing after the existence check leaves process_file as an IOError and
\* main with exit code 2; exit code 3 only for other failures; exit code 0
\* only when process_file returned a count.
C6_IOFailuresExitTwo ==
    /\ (pc = "raised" /\ failed_at \in InsideTry) => exc = "OSError"
    /\ pc = "exit" =>
          /\ failed_at \in InsideTry => exit_code = <<2>>
          /\ exit_code = <<3>> => failed_at \notin InsideTry \cup {"exists"}
          /\ exit_code = <<0>> => Returned

\* What does hold: the same with the decoding failure set apart, which
\* leaves process_file as it was raised and main with exit code 3.
IOFailuresExitTwoButDecoding ==
    pc = "exit" =>
        /\ (failed_at \in InsideTry /\ exc # "UnicodeDecodeError") => exit_code = <<2>>
        /\ exit_code = <<3>> <=> exc = "UnicodeDecodeError"
        /\ exit_code = <<0>> <=> Returned

RECURSIVE FlattenFirst(_, _)
FlattenFirst(ss, k) ==
    IF k = 0 \/ ss = <<>> THEN <<>>
    ELSE Head(ss) \o FlattenFirst(Tail(ss), k - 1)

\* C7: when a read or a write fails after k lines were written, nothing is
\* rolled back: the output holds exactly the first k converted lines (what
\* it held before the run is gone), the error propagates and no count is
\* returned.
C7_NoRollback ==
    failed_at \in {"read", "write"} =>
        /\ fs[output_path].exists
        /\ writes <= Len(NonBlankLines(fs0[input_path].data))
        /\ fs[output_path].data =
              FlattenFirst(ExpectedLines(fs0[input_path].data,
                                         add_word_boundary), writes)
        /\ exc \in {"OSError", "UnicodeDecodeError"}
        /\ count = <<>>
        /\ pc = "exit" => exit_code \in {<<2>>, <<3>>}

C7_Witness ==
    /\ pc = "raised"
    /\ failed_at = "read"
    /\ writes = 1
    /\ output_path = OUTPUT_FILE
    /\ fs0[OUTPUT_FILE].exists
    /\ fs[OUTPUT_FILE].data = <<"[", "b", "|", "h", "]", "\n">>

\* C9: once process_file has returned or raised, no handle is open,
\* whichever way it left: the input handle is closed also when opening the
\* output failed.
C9_HandlesClosedOnExit ==
    Left => (~input_file.open /\ ~output_file.open)

C9_Witness ==
    /\ pc = "raised"
    /\ failed_at = "open_output"
    /\ ~input_file.open

\* C10: process_file never changes the input file, also when the output
\* path names the same file.
C10_InputReadOnly ==
    fs[input_path] = fs0[input_path]

\* The same statement for an output path that is not the input path.
InputReadOnlyDistinctPaths ==
    input_path # output_path => C10_InputReadOnly

=============================================================================
